---------------------------- MODULE Spec2Model ----------------------------
(***************************************************************************)
(* Model of the AMT-8000 integration: the ISECNet2 client                  *)
(* (isec2/client.py), the polling coordinator (coordinator.py) and the     *)
(* command handlers of the alarm panel entity (alarm_control_panel.py).    *)
(*                                                                         *)
(* Bytes are integers 0..255, byte strings are sequences (1-based: the     *)
(* Python index i is the TLA+ index i+1).  Python's None is the record     *)
(* None.  Dictionary keys str(n) are modelled by the number n; str is      *)
(* injective on the zone numbers 1..64, and both producers of keys         *)
(* (build_status and get_paired_sensors) use it.                           *)
(***************************************************************************)
EXTENDS Integers, Sequences, FiniteSets, TLC

(***************************************************************************)
(* Bounds of the model.                                                    *)
(***************************************************************************)
MaxNow == 4
MaxDur == 1
MaxAttempt == 5
MaxOutageAttempt == 40

(***************************************************************************)
(* Bits and bytes.                                                         *)
(***************************************************************************)
RECURSIVE Xor(_, _)
Xor(a, b) ==
    IF a = 0 THEN b
    ELSE IF b = 0 THEN a
    ELSE 2 * Xor(a \div 2, b \div 2) + ((a + b) % 2)

\* (byte & (1 << k)) > 0
BitSet(byte, k) == (byte \div (2 ^ k)) % 2 = 1

\* Python slice s[lo:hi] for 0 <= lo, with hi clipped to len(s).
Slice(s, lo, hi) ==
    LET h == IF hi > Len(s) THEN Len(s) ELSE hi
    IN  IF h <= lo THEN << >> ELSE SubSeq(s, lo + 1, h)

None == [none |-> TRUE]

(***************************************************************************)
(* Module constants of isec2/client.py.                                    *)
(***************************************************************************)
dst_id == << 0, 0 >>
our_id == << 143, 255 >>
cmd_auth == << 240, 240 >>
cmd_status == << 11, 74 >>
cmd_arm_disarm == << 64, 30 >>
cmd_panic == << 64, 26 >>
cmd_paired_sensors == << 11, 1 >>
device_type == 1
software_version == 16

\* checksum ^= value for every value of buffer[lo..hi]; XOR is associative,
\* so the loop is folded by halves.
RECURSIVE XorRange(_, _, _)
XorRange(buffer, lo, hi) ==
    IF lo > hi THEN 0
    ELSE IF lo = hi THEN buffer[lo]
    ELSE LET mid == (lo + hi) \div 2
         IN  Xor(XorRange(buffer, lo, mid), XorRange(buffer, mid + 1, hi))

calculate_checksum(buffer) == Xor(XorRange(buffer, 1, Len(buffer)), 255) % 256

merge_octets(buf) == buf[1] * 256 + buf[2]

\* A get_status that reads bit 5 only.
get_status_bit5(payload) ==
    LET status == (payload[21] \div 32) % 2
    IN  IF status = 0 THEN "disarmed"
        ELSE IF status = 1 THEN "partial_armed"
        ELSE IF status = 3 THEN "armed_away"
        ELSE "unknown"

get_status(payload) ==
    LET status == (payload[21] \div 32) % 4
    IN  IF status = 0 THEN "disarmed"
        ELSE IF status = 1 THEN "partial_armed"
        ELSE IF status = 3 THEN "armed_away"
        ELSE "unknown"

battery_status_for(resp) ==
    LET batt == resp[135]
    IN  IF batt = 1 THEN "dead"
        ELSE IF batt = 2 THEN "low"
        ELSE IF batt = 3 THEN "middle"
        ELSE IF batt = 4 THEN "full"
        ELSE "unknown"

\* A decoder with tamper at bit 1 and the communication failure at bit 4.
ZoneProblems_tamper_bit1(zone_byte) ==
    (IF BitSet(zone_byte, 0) THEN << "open_triggered" >> ELSE << >>)
    \o (IF BitSet(zone_byte, 1) THEN << "tamper" >> ELSE << >>)
    \o (IF BitSet(zone_byte, 2) THEN << "bypassed" >> ELSE << >>)
    \o (IF BitSet(zone_byte, 3) THEN << "low_battery" >> ELSE << >>)
    \o (IF BitSet(zone_byte, 4) THEN << "comm_failure" >> ELSE << >>)
    \o (IF BitSet(zone_byte, 5) THEN << "memory_triggered" >> ELSE << >>)

\* The problems list of one zone byte, in the order the code appends them.
ZoneProblems(zone_byte) ==
    (IF BitSet(zone_byte, 0) THEN << "open_triggered" >> ELSE << >>)
    \o (IF BitSet(zone_byte, 1) THEN << "comm_failure" >> ELSE << >>)
    \o (IF BitSet(zone_byte, 2) THEN << "bypassed" >> ELSE << >>)
    \o (IF BitSet(zone_byte, 3) THEN << "low_battery" >> ELSE << >>)
    \o (IF BitSet(zone_byte, 4) THEN << "tamper" >> ELSE << >>)
    \o (IF BitSet(zone_byte, 5) THEN << "memory_triggered" >> ELSE << >>)

\* The zones dictionary of build_status: zone number -> problems, only for
\* zones with at least one problem.
ZonesOf(payload) ==
    LET n == Len(payload) - 84
        max_zones == IF n > 64 THEN 64 ELSE IF n < 0 THEN 0 ELSE n
        present == { i \in 1..max_zones : ZoneProblems(payload[84 + i]) # << >> }
    IN  [ z \in present |-> ZoneProblems(payload[84 + z]) ]

\* build_status(data): [exc, val]; exc is "IndexError" when the length
\* field cannot be read, val is None when the payload is too short.
build_status(data) ==
    IF Len(Slice(data, 4, 6)) < 2
    THEN [exc |-> "IndexError", val |-> None]
    ELSE
    LET length == merge_octets(Slice(data, 4, 6)) - 2
        payload == Slice(data, 8, 8 + length)
    IN  IF Len(payload) < 22
        THEN [exc |-> "none", val |-> None]
        ELSE [exc |-> "none",
              val |-> [model |-> IF payload[1] = 139 THEN "AMT-8000" ELSE "Unknown",
                       version |-> << payload[2], payload[3], payload[4] >>,
                       status |-> get_status(payload),
                       zonesFiring |-> BitSet(payload[21], 3),
                       zonesClosed |-> BitSet(payload[21], 2),
                       siren |-> BitSet(payload[21], 1),
                       zones |-> ZonesOf(payload),
                       batteryStatus |-> IF Len(payload) >= 135
                                         THEN battery_status_for(payload)
                                         ELSE "unknown",
                       tamper |-> IF Len(payload) >= 72
                                  THEN BitSet(payload[72], 1)
                                  ELSE FALSE]]

(***************************************************************************)
(* Sockets and the wire.                                                   *)
(*                                                                         *)
(* Client.client is "none" (None), "unconnected" (a socket object whose    *)
(* connect() was refused), "pending" (a socket object whose connect()      *)
(* timed out: the panel can still accept the connection) or "connected".   *)
(* What the peer does in one                                               *)
(* send/recv exchange is an input net: the send fails, the read times out, *)
(* or the read returns net.bytes (at most 1024 of them).                   *)
(***************************************************************************)
Ev(op, frame) == [op |-> op, frame |-> frame]

Res(exc, val, client, ops) == [exc |-> exc, val |-> val, client |-> client, ops |-> ops]

\* What the panel does with a connection request within the timeout.
ConnectOutcomes == { "accepted", "refused", "timeout" }

NetData(bytes) == [kind |-> "data", bytes |-> bytes]
NetTimeout == [kind |-> "timeout", bytes |-> << >>]
NetSendErr == [kind |-> "senderr", bytes |-> << >>]

\* self.client.send(payload); data = self.client.recv(1024)
Exchange(client, frame, net) ==
    IF client \in { "unconnected", "pending" } \/ net.kind = "senderr"
    THEN Res("OSError", None, client, << >>)
    ELSE IF net.kind = "timeout"
    THEN Res("OSError", None, client, << Ev("send", frame) >>)
    ELSE Res("none", net.bytes, client, << Ev("send", frame), Ev("recv", net.bytes) >>)

\* A frame whose length field counts the checksum byte too.
Frame_counts_checksum(length, command, payload) ==
    LET n == Len(command) + Len(payload) + 1
        data == dst_id \o our_id \o << n \div 256, n % 256 >> \o command \o payload
    IN  data \o << calculate_checksum(data) >>

\* data + [cs], with the length bytes each method hard-codes.
Frame(length, command, payload) ==
    LET data == dst_id \o our_id \o length \o command \o payload
    IN  data \o << calculate_checksum(data) >>

\* Client.connect: the new socket object replaces self.client before the
\* TCP connect is attempted.
connect(client, outcome) ==
    IF outcome = "accepted"
    THEN Res("none", None, "connected", << Ev("connect", << >>) >>)
    ELSE Res("OSError", None,
             IF outcome = "refused" THEN "unconnected" ELSE "pending",
             << Ev("connect", << >>) >>)

\* Client.connect creates the new socket while self.client still holds the
\* old one, if any, and closes nothing: the assignment drops the last
\* reference to the old socket, and the interpreter finalizes it there.
Orphaned(client) == IF client = "none" THEN 0 ELSE 1

\* A close that keeps the socket when closing it fails.
close_keeps_on_error(client, closeFails) ==
    IF client = "none"
    THEN Res("none", None, "none", << >>)
    ELSE IF closeFails
    THEN Res("none", None, client, << Ev("close_error", << >>) >>)
    ELSE Res("none", None, "none", << Ev("close", << >>) >>)

\* Client.close: every error of the socket's close is swallowed.
close(client, closeFails) ==
    IF client = "none"
    THEN Res("none", None, "none", << >>)
    ELSE Res("none", None, "none",
             << Ev(IF closeFails THEN "close_error" ELSE "close", << >>) >>)

(***************************************************************************)
(* Passwords are sequences of characters.  "ar3" stands for U+0663         *)
(* (ARABIC-INDIC DIGIT THREE: isdigit() is true, int() is 3), "sup2" for   *)
(* U+00B2 (SUPERSCRIPT TWO: isdigit() is true, int() raises ValueError).   *)
(***************************************************************************)
AsciiDigits == { "0", "1", "2", "3", "4", "5", "6", "7", "8", "9" }

isdigit(char) == char \in AsciiDigits \cup { "ar3", "sup2" }

\* int(char); -1 stands for ValueError.
int(char) ==
    CASE char = "0" -> 0 [] char = "1" -> 1 [] char = "2" -> 2
      [] char = "3" -> 3 [] char = "4" -> 4 [] char = "5" -> 5
      [] char = "6" -> 6 [] char = "7" -> 7 [] char = "8" -> 8
      [] char = "9" -> 9 [] char = "ar3" -> 3
      [] OTHER -> -1

\* The loop of Client.auth over the characters, from index i on:
\* the exception it raises, or "none".
RECURSIVE PassLoop(_, _)
PassLoop(password, i) ==
    IF i > Len(password) THEN "none"
    ELSE IF Len(password) # 6 \/ ~isdigit(password[i]) THEN "CommunicationError"
    ELSE IF int(password[i]) = -1 THEN "ValueError"
    ELSE PassLoop(password, i + 1)

pass_array(password) == [ i \in 1..Len(password) |-> int(password[i]) ]

AuthFrame(password) ==
    Frame(<< 0, 10 >>, cmd_auth,
          << device_type >> \o pass_array(password) \o << software_version >>)

\* The outcome of Client.auth for the result byte of the response.
auth_result_lenient(result) ==
    IF result = 0 \/ result > 4 THEN [exc |-> "none", val |-> TRUE]
    ELSE [exc |-> "AuthError", val |-> "Invalid password"]

auth_result(result) ==
    IF result = 0 THEN [exc |-> "none", val |-> TRUE]
    ELSE IF result = 1 THEN [exc |-> "AuthError", val |-> "Invalid password"]
    ELSE IF result = 2
    THEN [exc |-> "AuthError", val |-> "Incorrect software version"]
    ELSE IF result = 3
    THEN [exc |-> "AuthError", val |-> "Alarm panel will call back"]
    ELSE IF result = 4
    THEN [exc |-> "AuthError", val |-> "Waiting for user permission"]
    ELSE [exc |-> "CommunicationError",
          val |-> "Unknown payload response for authentication"]

\* Client.auth
auth(client, password, net) ==
    IF client = "none" THEN Res("CommunicationError", None, client, << >>)
    ELSE IF PassLoop(password, 1) # "none"
    THEN Res(PassLoop(password, 1), None, client, << >>)
    ELSE
    LET x == Exchange(client, AuthFrame(password), net)
    IN  IF x.exc # "none" THEN x
        ELSE IF Len(Slice(x.val, 8, 9)) = 0
        THEN Res("IndexError", None, client, x.ops)
        ELSE
        LET r == auth_result(Slice(x.val, 8, 9)[1])
        IN  Res(r.exc, r.val, client, x.ops)

StatusFrame == Frame(<< 0, 2 >>, cmd_status, << >>)

\* Client.status
status(client, net) ==
    IF client = "none" THEN Res("CommunicationError", None, client, << >>)
    ELSE
    LET x == Exchange(client, StatusFrame, net)
    IN  IF x.exc # "none" THEN x
        ELSE LET b == build_status(x.val)
             IN  Res(b.exc, b.val, client, x.ops)

PairedFrame == Frame(<< 0, 2 >>, cmd_paired_sensors, << >>)

\* The paired_zones dictionary of get_paired_sensors, as its key set.
PairedOf(return_data) ==
    { z \in 1..64 :
        /\ Len(return_data) > 8 + ((z - 1) \div 8)
        /\ BitSet(return_data[8 + ((z - 1) \div 8) + 1], (z - 1) % 8) }

\* Client.get_paired_sensors
get_paired_sensors(client, net) ==
    IF client = "none" THEN Res("CommunicationError", None, client, << >>)
    ELSE
    LET x == Exchange(client, PairedFrame, net)
    IN  IF x.exc # "none" THEN x
        ELSE Res("none", PairedOf(x.val), client, x.ops)

\* An arm/disarm frame that sends partition 0 as it is.
ArmFrame_no_broadcast(partition, onoff) ==
    Frame(<< 0, 4 >>, cmd_arm_disarm, << partition, onoff >>)

ArmFrame(partition, onoff) ==
    Frame(<< 0, 4 >>, cmd_arm_disarm,
          << IF partition = 0 THEN 255 ELSE partition, onoff >>)

\* Client.arm_system
arm_system(client, partition, net) ==
    IF client = "none" THEN Res("CommunicationError", None, client, << >>)
    ELSE
    LET x == Exchange(client, ArmFrame(partition, 1), net)
    IN  IF x.exc # "none" THEN x
        ELSE IF Len(x.val) < 9 THEN Res("IndexError", None, client, x.ops)
        ELSE IF x.val[9] = 145 THEN Res("none", "armed", client, x.ops)
        ELSE Res("none", "not_armed", client, x.ops)

\* Client.disarm_system
disarm_system(client, partition, net) ==
    IF client = "none" THEN Res("CommunicationError", None, client, << >>)
    ELSE
    LET x == Exchange(client, ArmFrame(partition, 0), net)
    IN  IF x.exc # "none" THEN x
        ELSE IF Len(x.val) < 9 THEN Res("IndexError", None, client, x.ops)
        ELSE IF x.val[9] = 145 THEN Res("none", "disarmed", client, x.ops)
        ELSE Res("none", "not_disarmed", client, x.ops)

PanicFrame(type) == Frame(<< 0, 3 >>, cmd_panic, << type >>)

\* A panic that looks for the acknowledgment where arm_system does.
panic_offset8(client, type, net) ==
    IF client = "none" THEN Res("CommunicationError", None, client, << >>)
    ELSE
    LET x == Exchange(client, PanicFrame(type), net)
    IN  IF x.exc # "none" THEN x
        ELSE IF Len(x.val) < 9 THEN Res("IndexError", None, client, x.ops)
        ELSE IF x.val[9] = 254 THEN Res("none", "triggered", client, x.ops)
        ELSE Res("none", "not_triggered", client, x.ops)

\* Client.panic
panic(client, type, net) ==
    IF client = "none" THEN Res("CommunicationError", None, client, << >>)
    ELSE
    LET x == Exchange(client, PanicFrame(type), net)
    IN  IF x.exc # "none" THEN x
        ELSE IF Len(x.val) < 8 THEN Res("IndexError", None, client, x.ops)
        ELSE IF x.val[8] = 254 THEN Res("none", "triggered", client, x.ops)
        ELSE Res("none", "not_triggered", client, x.ops)

(***************************************************************************)
(* What the panel may answer.  A response frame has the layout of a        *)
(* request frame; its length field counts command + payload, which is what *)
(* build_status assumes.                                                   *)
(***************************************************************************)
PanelFrame(command, payload) ==
    LET n == Len(command) + Len(payload)
        data == our_id \o dst_id \o << n \div 256, n % 256 >> \o command \o payload
    IN  data \o << calculate_checksum(data) >>

\* The frame with its checksum byte replaced by a wrong one.
Corrupt(frame) ==
    [ frame EXCEPT ![Len(frame)] = (frame[Len(frame)] + 1) % 256 ]

ChecksumOk(frame) ==
    /\ Len(frame) >= 1
    /\ frame[Len(frame)] = calculate_checksum(SubSeq(frame, 1, Len(frame) - 1))

AuthResp(code) == PanelFrame(cmd_auth, << code >>)

\* A status payload of n bytes: status byte sb at offset 20, zone bytes zs
\* from offset 84, tamper byte tb at offset 71, battery byte bb at offset 134.
StatusPayload(n, sb, zs, tb, bb) ==
    [ i \in 1..n |->
        IF i = 1 THEN 139
        ELSE IF i = 21 THEN sb
        ELSE IF i = 72 THEN tb
        ELSE IF i = 135 THEN bb
        ELSE IF i > 84 /\ i - 84 <= Len(zs) THEN zs[i - 84]
        ELSE 0 ]

StatusResp(n, sb, zs, tb, bb) == PanelFrame(cmd_status, StatusPayload(n, sb, zs, tb, bb))

PairedResp(bitmap) == PanelFrame(cmd_paired_sensors, bitmap)

\* What the panel does in the exchanges of one poll.
Panel ==
    [ conn |-> ConnectOutcomes,
      auth |-> { NetData(AuthResp(0)), NetData(AuthResp(1)), NetTimeout },
      status |-> { NetData(StatusResp(22, 66, << >>, 0, 0)),
                   NetData(StatusResp(87, 96, << 33, 0, 2 >>, 2, 0)),
                   NetData(StatusResp(21, 66, << >>, 0, 0)),
                   NetData(<< >>),
                   NetTimeout },
      paired |-> { NetData(PairedResp(<< 3, 0, 0, 0, 0, 0, 0, 0 >>)),
                   NetData(PairedResp(<< 0, 0, 0, 0, 0, 0, 0, 0 >>)),
                   NetTimeout } ]

\* What the panel does with the coordinator while the panel entity has it
\* refresh: it refuses the connection, answers everything or leaves the
\* status request unanswered.
RefreshPanel ==
    [ conn |-> { "accepted", "refused" },
      auth |-> { NetData(AuthResp(0)) },
      status |-> { NetData(StatusResp(22, 66, << >>, 0, 0)), NetTimeout },
      paired |-> { NetData(PairedResp(<< 3, 0, 0, 0, 0, 0, 0, 0 >>)) } ]

\* A panel that cannot be reached.
Unreachable ==
    [ conn |-> { "refused", "timeout" }, auth |-> { }, status |-> { }, paired |-> { } ]

CoordPasswords ==
    { << "1", "2", "3", "4", "5", "6" >>, << "1", "2", "a", "4", "5", "6" >> }

(***************************************************************************)
(* The coordinator (AmtCoordinator) and its client.                        *)
(***************************************************************************)
VARIABLES
    now,            \* datetime.now(), in seconds
    next_update,    \* AmtCoordinator.next_update
    attempt,        \* AmtCoordinator.attempt
    stored_status,  \* AmtCoordinator.stored_status
    paired_zones,   \* AmtCoordinator.paired_zones (its key set)
    password,       \* the configured password (AmtCoordinator.password,
                    \* AmtAlarmPanel.password)
    cclient,        \* AmtCoordinator.client.client
    pollKind,       \* the last call of _async_update_data: "init" (none yet),
                    \* "skipped" (inside the backoff window) or "io"
    pollExc,        \* the exception it raised to its caller, or "none"
    pollRet,        \* the value it returned
    pollOps,        \* the wire operations it performed, in order
    pollStep,       \* where it left the try block: "ok", "decode_none" or
                    \* the step that raised
    everOk,         \* some call has succeeded
    lastOkRet,      \* the value returned by the most recent successful call
    failsSinceOk,   \* failed calls since the most recent successful one,
                    \* counted up to MaxCounted
    healthy,        \* from now on the panel accepts the connection and the
                    \* password and answers every request properly
    answers,        \* the healthy panel also answers the paired sensors request
    polled,         \* the host has called _async_update_data since time
                    \* last passed between two calls
    isec,           \* AmtAlarmPanel.isec_client.client
    opName,         \* the last call on isec_client or on the panel entity
    opPre,          \* isec before that call
    opArg,          \* its argument
    opExc,          \* the exception it raised, or "none"
    opVal,          \* the value it returned
    opOps,          \* the wire operations it performed, in order
    opRefresh,      \* it requested a refresh of the coordinator
    openPeak,       \* the largest number of sockets of isec_client that
                    \* were open at the same time during that call
    authed          \* auth has returned True on isec_client since its last
                    \* connect or close

coordVars == << now, next_update, attempt, stored_status, paired_zones,
                cclient, pollKind, pollExc, pollRet, pollOps, pollStep,
                everOk, lastOkRet, failsSinceOk, healthy, answers, polled >>

opVars == << isec, opName, opPre, opArg, opExc, opVal, opOps, opRefresh,
            openPeak, authed >>

vars == << coordVars, password, opVars >>

\* The largest k for which datetime.now() + timedelta(seconds=2**k) is a
\* datetime, on a clock between the years 1290 and 5644 (datetime.max is in
\* year 9999, 2^37 s are 4355 years, 2^38 s are 8710 years); beyond it the
\* sum raises OverflowError.  On no clock is it larger than that for a
\* coordinator constructed after the year 1289.
MaxDatetimeExp == 37

\* failsSinceOk counts no further than this.
MaxCounted == MaxDatetimeExp + 5

\* One more failed call.
Counted(n) == IF n < MaxCounted THEN n + 1 ELSE n

\* Python's integers have no largest one, the integers of the model end at
\* 2^31 - 1: Num(high, low) is the number high * 2^30 + low, with
\* 0 <= low < 2^30.  next_update is such a number.
Limb == 2 ^ 30

Num(high, low) == [high |-> high, low |-> low]

\* The number t, for 0 <= t < 2^31.
NumOf(t) == Num(t \div Limb, t % Limb)

\* t + d, for 0 <= t < 2^30.
NumPlus(t, d) == Num(d.high + (t + d.low) \div Limb, (t + d.low) % Limb)

\* t < u, for 0 <= t < 2^30.
NumAfter(t, u) == u.high > 0 \/ t < u.low

\* "seconds = 2 ** self.attempt"
Seconds(k) == IF k < 30 THEN Num(0, 2 ^ k) ELSE Num(2 ^ (k - 30), 0)

\* A coordinator that passes the decoded zones on without filtering them.
ProcessedData_unfiltered(st, paired) ==
    [ status |-> [ siren |-> st.siren,
                   status |-> st.status,
                   zonesFiring |-> st.zonesFiring,
                   zonesClosed |-> st.zonesClosed,
                   batteryStatus |-> st.batteryStatus,
                   tamper |-> st.tamper ],
      zones |-> st.zones ]

\* processed_data of _async_update_data
ProcessedData(st, paired) ==
    [ status |-> [ siren |-> st.siren,
                   status |-> st.status,
                   zonesFiring |-> st.zonesFiring,
                   zonesClosed |-> st.zonesClosed,
                   batteryStatus |-> st.batteryStatus,
                   tamper |-> st.tamper ],
      zones |-> [ zone_id \in paired |->
                    IF zone_id \in DOMAIN st.zones
                    THEN st.zones[zone_id]
                    ELSE << "normal" >> ] ]

Init ==
    /\ now = 0
    /\ next_update = NumOf(0)
    /\ attempt = 0
    /\ stored_status = None
    /\ paired_zones = {}
    /\ password \in CoordPasswords
    /\ cclient = "none"
    /\ pollKind = "init"
    /\ pollExc = "none"
    /\ pollRet = None
    /\ pollOps = << >>
    /\ pollStep = "init"
    /\ everOk = FALSE
    /\ lastOkRet = None
    /\ failsSinceOk = 0
    /\ healthy = FALSE
    /\ answers = FALSE
    /\ polled = FALSE
    /\ isec = "none"
    /\ opName = "init"
    /\ opPre = "none"
    /\ opArg = None
    /\ opExc = "none"
    /\ opVal = None
    /\ opOps = << >>
    /\ opRefresh = FALSE
    /\ openPeak = 0
    /\ authed = FALSE

\* A coordinator without the backoff test.
InBackoff_never(t, nu) == FALSE

\* "datetime.now() < self.next_update"
InBackoff(t, nu) == NumAfter(t, nu)

\* The finally block: close the client if it holds a socket.
Finally(client, closeFails) == close(client, closeFails)

\* The value of next_update after the except block ran at time t.
Backoff(t, n) == NumPlus(t, Seconds(n))

\* The except block and the finally block after it, when the try block
\* raised at step with the client in state client after operations ops.
\* The call took dur seconds.
PollFailed(step, client, ops, paired) ==
    \E dur \in 0..MaxDur, closeFails \in BOOLEAN :
        LET f == Finally(client, closeFails)
            t == now + dur
        IN  /\ t <= MaxNow
            /\ now' = t
            /\ attempt' = attempt + 1
            /\ IF attempt + 1 > MaxDatetimeExp
               THEN /\ pollExc' = "OverflowError"
                    /\ pollRet' = None
                    /\ next_update' = next_update
               ELSE /\ pollExc' = "none"
                    /\ pollRet' = stored_status
                    /\ next_update' = Backoff(t, attempt + 1)
            /\ stored_status' = stored_status
            /\ paired_zones' = paired
            /\ cclient' = f.client
            /\ pollKind' = "io"
            /\ pollOps' = ops \o f.ops
            /\ pollStep' = step
            /\ failsSinceOk' = Counted(failsSinceOk)
            /\ UNCHANGED << password, everOk, lastOkRet >>

\* "return None" when status() returned None, and the finally block.
PollDecodeNone(client, ops, paired) ==
    \E dur \in 0..MaxDur, closeFails \in BOOLEAN :
        LET f == Finally(client, closeFails)
            t == now + dur
        IN  /\ t <= MaxNow
            /\ now' = t
            /\ attempt' = attempt + 1
            /\ pollExc' = "none"
            /\ pollRet' = None
            /\ paired_zones' = paired
            /\ cclient' = f.client
            /\ pollKind' = "io"
            /\ pollOps' = ops \o f.ops
            /\ pollStep' = "decode_none"
            /\ failsSinceOk' = Counted(failsSinceOk)
            /\ UNCHANGED << next_update, stored_status, password, everOk,
                            lastOkRet >>

\* A coordinator whose success leaves the failure counter and the backoff
\* window as they are.
PollSucceeded_no_reset(st, client, ops, paired) ==
    \E dur \in 0..MaxDur, closeFails \in BOOLEAN :
        LET f == Finally(client, closeFails)
            t == now + dur
            processed_data == ProcessedData(st, paired)
        IN  /\ t <= MaxNow
            /\ now' = t
            /\ attempt' = attempt + 1
            /\ next_update' = next_update
            /\ stored_status' = processed_data
            /\ pollExc' = "none"
            /\ pollRet' = processed_data
            /\ paired_zones' = paired
            /\ cclient' = f.client
            /\ pollKind' = "io"
            /\ pollOps' = ops \o f.ops
            /\ pollStep' = "ok"
            /\ everOk' = TRUE
            /\ lastOkRet' = processed_data
            /\ failsSinceOk' = 0
            /\ UNCHANGED password

\* The end of the try block, and the finally block.
PollSucceeded(st, client, ops, paired) ==
    \E dur \in 0..MaxDur, closeFails \in BOOLEAN :
        LET f == Finally(client, closeFails)
            t == now + dur
            processed_data == ProcessedData(st, paired)
        IN  /\ t <= MaxNow
            /\ now' = t
            /\ attempt' = 0
            /\ next_update' = NumOf(t)
            /\ stored_status' = processed_data
            /\ pollExc' = "none"
            /\ pollRet' = processed_data
            /\ paired_zones' = paired
            /\ cclient' = f.client
            /\ pollKind' = "io"
            /\ pollOps' = ops \o f.ops
            /\ pollStep' = "ok"
            /\ everOk' = TRUE
            /\ lastOkRet' = processed_data
            /\ failsSinceOk' = 0
            /\ UNCHANGED password

\* "if datetime.now() < self.next_update: return self.stored_status"
PollSkipped ==
    /\ attempt' = attempt + 1
    /\ pollKind' = "skipped"
    /\ pollExc' = "none"
    /\ pollRet' = stored_status
    /\ pollOps' = << >>
    /\ pollStep' = "skipped"
    /\ UNCHANGED << now, next_update, stored_status, paired_zones, password,
                    cclient, everOk, lastOkRet, failsSinceOk >>

\* After status() returned st: the paired sensors, the None test and the
\* processing of the data.
PollAfterStatus(E, st, client, ops) ==
    IF paired_zones = {}
    THEN \E np \in E.paired :
            LET p == get_paired_sensors(client, np)
            IN  IF p.exc # "none"
                THEN PollFailed("get_paired_sensors", p.client, ops \o p.ops,
                                paired_zones)
                ELSE IF st = None
                THEN PollDecodeNone(p.client, ops \o p.ops, p.val)
                ELSE PollSucceeded(st, p.client, ops \o p.ops, p.val)
    ELSE IF st = None
    THEN PollDecodeNone(client, ops, paired_zones)
    ELSE PollSucceeded(st, client, ops, paired_zones)

\* A coordinator that asks for the status whatever auth did.
PollIn_status_after_auth_error(E, maxAttempt) ==
    /\ attempt < maxAttempt
    /\ IF InBackoff(now, next_update)
       THEN PollSkipped
       ELSE \E connOk \in E.conn :
            LET c == connect(cclient, connOk)
            IN  IF c.exc # "none"
                THEN PollFailed("connect", c.client, c.ops, paired_zones)
                ELSE \E na \in E.auth :
                     LET a == auth(c.client, password, na)
                     IN  \E ns \in E.status :
                              LET s == status(a.client, ns)
                              IN  IF a.exc # "none"
                                  THEN PollFailed("auth", s.client,
                                                  c.ops \o a.ops \o s.ops,
                                                  paired_zones)
                                  ELSE IF s.exc # "none"
                                  THEN PollFailed("status", s.client,
                                                  c.ops \o a.ops \o s.ops,
                                                  paired_zones)
                                  ELSE PollAfterStatus(E, s.val, s.client,
                                                       c.ops \o a.ops \o s.ops)

\* AmtCoordinator._async_update_data, with a panel that behaves as E allows.
PollIn(E, maxAttempt) ==
    /\ attempt < maxAttempt
    /\ IF InBackoff(now, next_update)
       THEN PollSkipped
       ELSE \E connOk \in E.conn :
            LET c == connect(cclient, connOk)
            IN  IF c.exc # "none"
                THEN PollFailed("connect", c.client, c.ops, paired_zones)
                ELSE \E na \in E.auth :
                     LET a == auth(c.client, password, na)
                     IN  IF a.exc # "none"
                         THEN PollFailed("auth", a.client, c.ops \o a.ops,
                                         paired_zones)
                         ELSE \E ns \in E.status :
                              LET s == status(a.client, ns)
                              IN  IF s.exc # "none"
                                  THEN PollFailed("status", s.client,
                                                  c.ops \o a.ops \o s.ops,
                                                  paired_zones)
                                  ELSE PollAfterStatus(E, s.val, s.client,
                                                       c.ops \o a.ops \o s.ops)

Poll ==
    PollIn(Panel, MaxAttempt) /\ UNCHANGED << healthy, answers, polled, opVars >>

\* Time passes between two calls.
Tick ==
    /\ now < MaxNow
    /\ now' = now + 1
    /\ UNCHANGED << next_update, attempt, stored_status, paired_zones, password,
                    cclient, pollKind, pollExc, pollRet, pollOps, pollStep,
                    everOk, lastOkRet, failsSinceOk, healthy, answers, polled, opVars >>

Next == Poll \/ Tick

Spec == Init /\ [][Next]_vars

\* A panel that accepts the connection and the password and answers every
\* request properly.
GoodPanel ==
    [ conn |-> { "accepted" },
      auth |-> { NetData(AuthResp(0)) },
      status |-> { NetData(StatusResp(22, 34, << >>, 0, 0)) },
      paired |-> { NetData(PairedResp(<< 3, 0, 0, 0, 0, 0, 0, 0 >>)),
                   NetData(PairedResp(<< 0, 0, 0, 0, 0, 0, 0, 0 >>)) } ]

\* A panel that accepts the connection and the password and returns a
\* decodable status, but leaves the paired sensors request unanswered.
StatusOnlyPanel == [ GoodPanel EXCEPT !.paired = { NetTimeout } ]

\* A panel that refuses the connection, or accepts it and the password and
\* then answers properly or not at all.
FaultyPanel ==
    [ conn |-> { "accepted", "refused" },
      auth |-> { NetData(AuthResp(0)) },
      status |-> { NetData(StatusResp(22, 66, << >>, 0, 0)), NetTimeout },
      paired |-> { NetData(PairedResp(<< 3, 0, 0, 0, 0, 0, 0, 0 >>)), NetTimeout } ]

\* The panel a call of the host meets.
PanelNow ==
    IF ~healthy THEN FaultyPanel
    ELSE IF answers THEN GoodPanel ELSE StatusOnlyPanel

\* The calls of a healthy panel all end alike.  They all succeed when the
\* loop of auth accepts the password, which the healthy panel then accepts
\* too, and the paired sensors are answered or need not be asked for: no
\* call fails, so no sum of the clock and a window is formed again.
AlwaysSucceeds ==
    /\ healthy
    /\ PassLoop(password, 1) = "none"
    /\ answers \/ paired_zones # { }

\* Otherwise they all fail, the failure counter only grows, and once it has
\* reached MaxDatetimeExp every sum "datetime.now() + timedelta(seconds =
\* 2 ** self.attempt)" raises OverflowError, whatever the clock shows.
AlwaysOverflows ==
    /\ healthy
    /\ ~AlwaysSucceeds
    /\ attempt >= MaxDatetimeExp

\* From such a state on, the code reads the clock in "datetime.now() <
\* self.next_update" only, and the failure counter, while it is above
\* MaxDatetimeExp, in a power that overflows only: states that differ in a
\* shift of now and next_update, in how far next_update lies in the past
\* or in how far the counter lies above MaxDatetimeExp behave alike.
ClockFree == AlwaysSucceeds \/ AlwaysOverflows

\* A failure counter above MaxDatetimeExp, kept as MaxDatetimeExp + 1.
Saturated(n) == IF n > MaxDatetimeExp THEN MaxDatetimeExp + 1 ELSE n

\* The largest failure counter of the scenario.
RecoverCap == MaxDatetimeExp + 3

\* The host calls _async_update_data.
PollRecover ==
    /\ PollIn(PanelNow, RecoverCap)
    /\ polled' = TRUE
    /\ UNCHANGED << healthy, answers, opVars >>

\* Time passes between two calls.  While the date matters, it is one of the
\* first MaxNow seconds, and one second passes.  In a ClockFree state time
\* passes until the pending window, if any, has ended, however long that
\* takes, and the scenario goes on with the one state of its class whose
\* clock shows 0, whose window ends now and whose counter is Saturated.
TickRecover ==
    /\ IF ClockFree
       THEN /\ now' = 0
            /\ next_update' = NumOf(0)
            /\ attempt' = Saturated(attempt)
       ELSE /\ now < MaxNow
            /\ now' = now + 1
            /\ UNCHANGED << next_update, attempt >>
    /\ polled' = FALSE
    /\ UNCHANGED << stored_status, paired_zones, password,
                    cclient, pollKind, pollExc, pollRet, pollOps, pollStep,
                    everOk, lastOkRet, failsSinceOk, healthy, answers, opVars >>

\* The panel becomes healthy for good.
Heal ==
    /\ ~healthy
    /\ healthy' = TRUE
    /\ answers' \in BOOLEAN
    /\ UNCHANGED << now, next_update, attempt, stored_status, paired_zones,
                    password, cclient, pollKind, pollExc, pollRet, pollOps,
                    pollStep, everOk, lastOkRet, failsSinceOk, polled, opVars >>

NextRecover == PollRecover \/ TickRecover \/ Heal

\* Time keeps passing, and the host keeps calling: time passes when it can,
\* again and again it has passed since the last call, and again and again
\* the host has called since.
SpecRecover ==
    /\ Init /\ [][NextRecover]_vars
    /\ WF_vars(TickRecover)
    /\ []<>~polled /\ []<>polled

\* A long outage: every connect fails.
PollOutage ==
    /\ PollIn(Unreachable, MaxOutageAttempt)
    /\ UNCHANGED << healthy, answers, polled, opVars >>

NextOutage == PollOutage \/ Tick

SpecOutage == Init /\ [][NextOutage]_vars

(***************************************************************************)
(* The alarm panel entity (AmtAlarmPanel) and its own client, isec_client. *)
(***************************************************************************)
AckResp(byte) == PanelFrame(cmd_arm_disarm, << byte >>)

\* A panic response: one byte shorter, the acknowledgment at frame offset 7.
PanicResp(byte) == << 143, 255, 0, 0, 0, 1, 0, byte, 0 >>

PanelAuthNets ==
    { NetData(AuthResp(0)), NetData(AuthResp(1)), NetData(AuthResp(9)),
      NetData(Corrupt(AuthResp(0))), NetData(<< 143, 255, 0, 0 >>),
      NetTimeout, NetSendErr }

ArmNets ==
    { NetData(AckResp(145)), NetData(AckResp(144)), NetData(Corrupt(AckResp(145))),
      NetData(<< >>), NetTimeout }

PanicNets ==
    { NetData(PanicResp(254)), NetData(PanicResp(145)), NetData(<< >>), NetTimeout }

\* A handler left by the exception of r: nothing closes the socket.  au
\* tells whether its auth had returned.
CycleRaised(name, r, ops, au) ==
    /\ isec' = r.client
    /\ opName' = name
    /\ opPre' = isec
    /\ opArg' = None
    /\ opExc' = r.exc
    /\ opVal' = None
    /\ opOps' = ops
    /\ opRefresh' = FALSE
    /\ openPeak' = 1 + Orphaned(isec)
    /\ authed' = au
    /\ UNCHANGED << coordVars, password >>

\* "await self.coordinator.async_request_refresh()": the coordinator runs
\* _async_update_data before the handler returns (here within the second
\* in which it started).
RequestRefresh ==
    /\ PollIn(RefreshPanel, MaxAttempt)
    /\ now' = now
    /\ UNCHANGED << healthy, answers, polled >>

\* A handler that ran to its end: close(), then the refresh request when
\* the command was acknowledged.
CycleDone(name, r, ops, good) ==
    \E closeFails \in BOOLEAN :
        LET f == close(r.client, closeFails)
        IN  /\ isec' = f.client
            /\ opName' = name
            /\ opPre' = isec
            /\ opArg' = None
            /\ opExc' = "none"
            /\ opVal' = r.val
            /\ opOps' = ops \o f.ops
            /\ opRefresh' = (r.val = good)
            /\ openPeak' = 1 + Orphaned(isec)
            /\ authed' = FALSE
            /\ IF r.val = good
               THEN RequestRefresh
               ELSE UNCHANGED << coordVars, password >>

\* connect() and auth(password) at the head of every handler.
CycleHead(client, pw, connOk, na) ==
    LET c == connect(client, connOk)
    IN  IF c.exc # "none" THEN c
        ELSE LET a == auth(c.client, pw, na)
             IN  Res(a.exc, a.val, a.client, c.ops \o a.ops)

\* AmtAlarmPanel.async_alarm_disarm
async_alarm_disarm ==
    \E connOk \in ConnectOutcomes, na \in PanelAuthNets :
        LET h == CycleHead(isec, password, connOk, na)
        IN  IF h.exc # "none"
            THEN CycleRaised("async_alarm_disarm", h, h.ops, FALSE)
            ELSE \E nc \in ArmNets :
                 LET r == disarm_system(h.client, 0, nc)
                 IN  IF r.exc # "none"
                     THEN CycleRaised("async_alarm_disarm", r, h.ops \o r.ops,
                                      TRUE)
                     ELSE CycleDone("async_alarm_disarm", r, h.ops \o r.ops,
                                    "disarmed")

\* AmtAlarmPanel.async_alarm_arm_away
async_alarm_arm_away ==
    \E connOk \in ConnectOutcomes, na \in PanelAuthNets :
        LET h == CycleHead(isec, password, connOk, na)
        IN  IF h.exc # "none"
            THEN CycleRaised("async_alarm_arm_away", h, h.ops, FALSE)
            ELSE \E nc \in ArmNets :
                 LET r == arm_system(h.client, 0, nc)
                 IN  IF r.exc # "none"
                     THEN CycleRaised("async_alarm_arm_away", r, h.ops \o r.ops,
                                      TRUE)
                     ELSE CycleDone("async_alarm_arm_away", r, h.ops \o r.ops,
                                    "armed")

\* AmtAlarmPanel.async_alarm_trigger
async_alarm_trigger ==
    \E connOk \in ConnectOutcomes, na \in PanelAuthNets :
        LET h == CycleHead(isec, password, connOk, na)
        IN  IF h.exc # "none"
            THEN CycleRaised("async_alarm_trigger", h, h.ops, FALSE)
            ELSE \E nc \in PanicNets :
                 LET r == panic(h.client, 1, nc)
                 IN  IF r.exc # "none"
                     THEN CycleRaised("async_alarm_trigger", r, h.ops \o r.ops,
                                      TRUE)
                     ELSE CycleDone("async_alarm_trigger", r, h.ops \o r.ops,
                                    "triggered")

\* The panel accepts, after the timeout of connect(), the connection the
\* socket of isec_client still asks for.
LateAccept ==
    /\ isec = "pending"
    /\ isec' = "connected"
    /\ UNCHANGED << coordVars, password, opName, opPre, opArg, opExc,
                    opVal, opOps, opRefresh, openPeak, authed >>

NextPanel ==
    \/ async_alarm_disarm \/ async_alarm_arm_away \/ async_alarm_trigger
    \/ LateAccept

SpecPanel == Init /\ [][NextPanel]_vars

(***************************************************************************)
(* The client on its own: any sequence of calls on one Client object.      *)
(***************************************************************************)
Passwords ==
    { << >>,
      << "1", "2", "3", "4", "5" >>,
      << "1", "2", "3", "4", "5", "6" >>,
      << "0", "0", "0", "0", "0", "0", "0" >>,
      << "1", "2", "a", "4", "5", "6" >>,
      << "1", "2", "ar3", "4", "5", "6" >>,
      << "1", "2", "sup2", "4", "5", "6" >> }

Partitions == { 0, 1, 3, 255 }

PanicTypes == { 1, 2 }

\* Byte sequences that are no frame: nothing at all, less than the length
\* field, less than the header, a length field of 0 and of 1, and a length
\* field that promises more bytes than were received.
GarbledResps ==
    { << >>,
      << 143, 255, 0 >>,
      << 143, 255, 0, 0, 0, 24, 11 >>,
      << 143, 255, 0, 0, 0, 0, 11, 74, 1, 2 >>,
      << 143, 255, 0, 0, 0, 1, 11, 74, 1, 2 >>,
      << 143, 255, 0, 0, 255, 255, 11, 74, 139, 1, 2, 3 >> }

ClientStatusNets ==
    { NetData(StatusResp(22, 66, << >>, 0, 0)),
      NetData(Corrupt(StatusResp(22, 66, << >>, 0, 0))),
      NetData(StatusResp(21, 66, << >>, 0, 0)),
      NetTimeout, NetSendErr }
    \cup { NetData(bytes) : bytes \in GarbledResps }

ClientPairedNets ==
    { NetData(PairedResp(<< 3, 0, 0, 0, 0, 0, 0, 0 >>)),
      NetData(Corrupt(PairedResp(<< 3, 0, 0, 0, 0, 0, 0, 0 >>))),
      NetData(<< >>), NetTimeout }

\* One call on the client, with result r.
Called(name, arg, r) ==
    /\ isec' = r.client
    /\ opName' = name
    /\ opPre' = isec
    /\ opArg' = arg
    /\ opExc' = r.exc
    /\ opVal' = r.val
    /\ opOps' = r.ops
    /\ opRefresh' = FALSE
    /\ openPeak' = IF name = "connect" THEN 1 + Orphaned(isec)
                   ELSE Orphaned(isec)
    /\ authed' = IF name \in { "connect", "close" } THEN FALSE
                 ELSE IF name = "auth" /\ r.exc = "none" THEN TRUE
                 ELSE authed
    /\ UNCHANGED << coordVars, password >>

Connect ==
    \E outcome \in ConnectOutcomes :
        Called("connect", None, connect(isec, outcome))

Close == \E closeFails \in BOOLEAN : Called("close", None, close(isec, closeFails))

Auth ==
    \E pw \in Passwords, net \in PanelAuthNets :
        Called("auth", pw, auth(isec, pw, net))

Status == \E net \in ClientStatusNets : Called("status", None, status(isec, net))

ArmSystem ==
    \E partition \in Partitions, net \in ArmNets :
        Called("arm_system", partition, arm_system(isec, partition, net))

DisarmSystem ==
    \E partition \in Partitions, net \in ArmNets :
        Called("disarm_system", partition, disarm_system(isec, partition, net))

Panic ==
    \E type \in PanicTypes, net \in PanicNets :
        Called("panic", type, panic(isec, type, net))

GetPairedSensors ==
    \E net \in ClientPairedNets :
        Called("get_paired_sensors", None, get_paired_sensors(isec, net))

NextClient ==
    \/ Connect \/ Close \/ Auth \/ Status
    \/ ArmSystem \/ DisarmSystem \/ Panic \/ GetPairedSensors
    \/ LateAccept

SpecClient == Init /\ [][NextClient]_vars

\* auth with the configured password, against every result byte.
AuthByte ==
    \E code \in 0..255 :
        Called("auth", password, auth(isec, password, NetData(AuthResp(code))))

NextAuth == Connect \/ AuthByte

SpecAuth == Init /\ [][NextAuth]_vars

\* arm_system, disarm_system and panic against every acknowledgment byte,
\* each on a connection that was just opened, as the panel entity calls
\* them.
ArmByte ==
    /\ opName = "connect"
    /\ \E byte \in 0..255 :
        Called("arm_system", 0, arm_system(isec, 0, NetData(AckResp(byte))))

DisarmByte ==
    /\ opName = "connect"
    /\ \E byte \in 0..255 :
        Called("disarm_system", 0, disarm_system(isec, 0, NetData(AckResp(byte))))

PanicByte ==
    /\ opName = "connect"
    /\ \E byte \in 0..255 :
        Called("panic", 1, panic(isec, 1, NetData(PanicResp(byte))))

NextAck == Connect \/ ArmByte \/ DisarmByte \/ PanicByte

SpecAck == Init /\ [][NextAck]_vars

\* arm_system and disarm_system for every partition byte, each on a
\* connection that was just opened, the panel acknowledging.
ArmPartition ==
    /\ opName = "connect"
    /\ \E partition \in 0..255 :
        Called("arm_system", partition,
               arm_system(isec, partition, NetData(AckResp(145))))

DisarmPartition ==
    /\ opName = "connect"
    /\ \E partition \in 0..255 :
        Called("disarm_system", partition,
               disarm_system(isec, partition, NetData(AckResp(145))))

NextPartition == Connect \/ ArmPartition \/ DisarmPartition

SpecPartition == Init /\ [][NextPartition]_vars

\* The zone numbers and payload lengths of the zone scenarios: the first
\* zone, the last one a 90-byte payload holds, the first one it does not,
\* and the last zone of all.
ZoneNumbers == { 1, 6, 7, 64 }

ZonePayloadLengths == { 90, 148 }

\* status() on a connection that was just opened, against a status response
\* in which one zone has the status byte byte and all others have 0.
StatusZone ==
    /\ opName = "connect"
    /\ \E zone \in ZoneNumbers, n \in ZonePayloadLengths, byte \in 0..255 :
        Called("status", zone,
               status(isec,
                      NetData(StatusResp(n, 0,
                                         [ i \in 1..64 |-> IF i = zone THEN byte ELSE 0 ],
                                         0, 0))))

NextZones == Connect \/ StatusZone

SpecZones == Init /\ [][NextZones]_vars

(***************************************************************************)
(* The zone entities.  zone_status is the value of                         *)
(* coordinator.data["zones"] for the zone: the decoder's comma-joined      *)
(* problems, which the entities split at the commas again, modelled as the *)
(* sequence of the problems; << "normal" >> is the string "normal".        *)
(***************************************************************************)
\* "label in problems", for problems = zone_status.split(",")
InProblems(label, zone_status) ==
    \E i \in 1..Len(zone_status) : zone_status[i] = label

\* AMTZoneBinarySensor.state
state(zone_status) ==
    IF zone_status = << "normal" >> THEN "seguro"
    ELSE IF InProblems("triggered", zone_status) THEN "disparado"
    ELSE IF InProblems("tamper", zone_status) THEN "violado"
    ELSE IF InProblems("open", zone_status) THEN "aberto"
    ELSE IF InProblems("low_battery", zone_status) THEN "bateria_fraca"
    ELSE IF InProblems("comm_failure", zone_status) THEN "falha_comunicacao"
    ELSE IF InProblems("bypassed", zone_status) THEN "ignorado"
    ELSE "inseguro"

\* AMTZoneSensor.native_value
native_value(zone_status) ==
    IF zone_status = << "normal" >> THEN "seguro"
    ELSE IF InProblems("triggered", zone_status) THEN "disparado"
    ELSE IF InProblems("open", zone_status) THEN "aberto"
    ELSE IF InProblems("tamper", zone_status) THEN "violado"
    ELSE IF InProblems("bypassed", zone_status) THEN "ignorado"
    ELSE IF InProblems("low_battery", zone_status) THEN "bateria_fraca"
    ELSE IF InProblems("comm_failure", zone_status) THEN "falha_comunicacao"
    ELSE "inseguro"

(***************************************************************************)
(* Properties.                                                             *)
(***************************************************************************)
FailedSteps == { "connect", "auth", "status", "get_paired_sensors", "decode_none" }

ClosingOps == { "close", "close_error" }

Sent(ops) == \E i \in 1..Len(ops) : ops[i].op = "send"

\* The last operation of ops is the receipt of a response.
GotResponse(ops) == Len(ops) >= 1 /\ ops[Len(ops)].op = "recv"

Response(ops) == ops[Len(ops)].frame

\* The trailing byte of frame is not the checksum of the bytes before it.
BadChecksum(frame) == Len(frame) >= 1 /\ ~ChecksumOk(frame)

ValidPassword(p) == Len(p) = 6 /\ \A i \in 1..Len(p) : p[i] \in AsciiDigits

Handlers == { "async_alarm_disarm", "async_alarm_arm_away", "async_alarm_trigger" }

Commands ==
    { "auth", "status", "arm_system", "disarm_system", "panic", "get_paired_sensors" }

\* C1: once some poll has succeeded, every poll that returns returns a
\* status that is not None; None is returned only while no poll has ever
\* succeeded.
C1_StatusAfterFirstSuccess ==
    (pollKind # "init" /\ pollExc = "none" /\ everOk) => pollRet # None

\* C2: a poll never raises to its caller, whichever step failed and whether
\* or not the close failed; it returns the fresh status on success and the
\* previous one on failure.
C2_PollNeverRaises ==
    pollKind = "io" =>
        /\ pollExc = "none"
        /\ pollStep = "ok" => pollRet = stored_status
        /\ pollStep # "ok" => pollRet = lastOkRet

\* C3: a poll made while now < next_update performs no network operation,
\* leaves the client and the coordinator's status and window alone, and
\* returns the value returned by the most recent successful poll.
C3_BackoffServesLastGood ==
    [][ (NumAfter(now, next_update) /\ attempt' # attempt) =>
            /\ pollKind' = "skipped"
            /\ pollOps' = << >>
            /\ pollExc' = "none"
            /\ pollRet' = lastOkRet
            /\ UNCHANGED << cclient, next_update, stored_status, lastOkRet >> ]_vars

\* C3 happens: a poll was skipped inside the window after an earlier success
\* and returned that success's status.
W_C3_SkippedAfterSuccess ==
    /\ pollKind = "skipped"
    /\ NumAfter(now, next_update)
    /\ everOk
    /\ pollRet # None
    /\ pollRet = lastOkRet

\* C4: the failure counter is the number of failed polls since the last
\* successful one (skipped polls do not count), and after a failed poll
\* next_update is the time of the failure plus 2^counter seconds.
C4_BackoffCountsFailedPolls ==
    [][ /\ attempt' # attempt => attempt' = failsSinceOk'
        /\ (attempt' = attempt + 1 /\ pollKind' = "io") =>
                /\ pollExc' = "none"
                /\ next_update' = NumPlus(now', Num(0, 2 ^ failsSinceOk')) ]_vars

\* C5: when a poll that went to the network is over, the coordinator's
\* client holds no socket, and the poll's last wire operation closed the
\* session its first one opened.
C5_ClientClosedAfterPoll ==
    pollKind = "io" =>
        /\ cclient = "none"
        /\ Len(pollOps) >= 2
        /\ pollOps[1].op = "connect"
        /\ pollOps[Len(pollOps)].op \in ClosingOps

\* C5 happens: a poll failed while listing the paired sensors, the close
\* failed too, and the client holds no socket.
W_C5_ClosedAfterFailure ==
    /\ pollKind = "io"
    /\ pollStep = "get_paired_sensors"
    /\ pollOps[Len(pollOps)].op = "close_error"
    /\ cclient = "none"

\* C6: every arm, disarm or panic request cycle of the panel entity ends
\* with its client's socket closed, on every exit path.
C6_CycleClosesSocket ==
    opName \in Handlers => isec = "none"

\* C7: a response whose checksum byte is wrong is not decoded: the call
\* that received it fails with CommunicationError.
C7_BadChecksumRejected ==
    (opName \in Commands /\ GotResponse(opOps) /\ BadChecksum(Response(opOps)))
        => opExc = "CommunicationError"

\* C8: auth on a connected client rejects, without sending, every password
\* that is not exactly 6 ASCII digits; only such a password gets an Auth
\* frame sent.
C8_BadPasswordRejectedBeforeSend ==
    (opName = "auth" /\ opPre = "connected") =>
        /\ ~ValidPassword(opArg) => (opExc # "none" /\ ~Sent(opOps))
        /\ Sent(opOps) => ValidPassword(opArg)

\* C9: auth maps the byte at frame offset 8 of the response to its outcome:
\* 0 is success, 1..4 are the four AuthErrors, anything else is a
\* CommunicationError; only 0 is a success.
C9_AuthResultCodes ==
    (opName = "auth" /\ GotResponse(opOps) /\ Len(Response(opOps)) >= 9) =>
        LET code == Response(opOps)[9]
        IN  /\ code = 0 => (opExc = "none" /\ opVal = TRUE)
            /\ code = 1 => (opExc = "AuthError" /\ opVal = "Invalid password")
            /\ code = 2 => (opExc = "AuthError" /\ opVal = "Incorrect software version")
            /\ code = 3 => (opExc = "AuthError" /\ opVal = "Alarm panel will call back")
            /\ code = 4 => (opExc = "AuthError" /\ opVal = "Waiting for user permission")
            /\ code \notin 0..4 => opExc = "CommunicationError"
            /\ opExc = "none" => code = 0

\* C9 happens: the panel answered an Auth frame with result byte 255 and
\* auth raised CommunicationError.
W_C9_UnknownResultCode ==
    /\ opName = "auth"
    /\ GotResponse(opOps)
    /\ Len(Response(opOps)) >= 9
    /\ Response(opOps)[9] = 255
    /\ opExc = "CommunicationError"

\* C10: a command called on a client without an established connection
\* fails with CommunicationError and sends nothing.
C10_DisconnectedCallsFail ==
    (opName \in Commands /\ opPre \in { "none", "unconnected", "pending" }) =>
        (opExc = "CommunicationError" /\ opOps = << >>)

\* C11: close() is total and idempotent: from every client state it returns
\* without raising and leaves the client without a socket, also when the
\* socket's close fails; on a client without a socket it does nothing, so a
\* second close() changes nothing.
C11_CloseTotalIdempotent ==
    [][ opName' = "close" =>
            /\ opExc' = "none"
            /\ isec' = "none"
            /\ isec = "none" => opOps' = << >>
            /\ opName = "close" => (isec' = isec /\ opOps' = << >>) ]_vars

\* C11 happens: close() on a connected client whose socket close failed
\* returned normally and left the client without a socket.
W_C11_CloseAfterFailingClose ==
    /\ opName = "close"
    /\ opPre = "connected"
    /\ opOps = << Ev("close_error", << >>) >>
    /\ opExc = "none"
    /\ isec = "none"

\* A ListPairedSensors frame was sent among ops.
SentPaired(ops) ==
    \E i \in 1..Len(ops) : ops[i].op = "send" /\ ops[i].frame = PairedFrame

\* C12: the ListPairedSensors command is issued on the first successful
\* poll and never again: no poll after a success sends it, whatever set the
\* panel reported, the empty set included.
C12_PairedSensorsFetchedOnce ==
    [][ (attempt' # attempt \/ pollOps' # pollOps \/ pollStep' # pollStep) =>
            /\ everOk => ~SentPaired(pollOps')
            /\ (~everOk /\ everOk') => SentPaired(pollOps') ]_vars

\* The status decoded from the status response of the last poll: the
\* response is the fifth wire operation of a poll that got that far.
DecodedInPoll == build_status(pollOps[5].frame).val

\* C13: the zone ids of every status returned by a poll, and of the stored
\* status, are paired zones: an unpaired zone never appears, even when the
\* decoded status reports problems for it.
C13_ZonesArePaired ==
    /\ stored_status # None => DOMAIN stored_status.zones \subseteq paired_zones
    /\ pollRet # None => DOMAIN pollRet.zones \subseteq paired_zones

\* C13 happens: the decoded status reported problems for zone 3, which is
\* not paired, and the returned and stored status has the paired zones only.
W_C13_UnpairedZoneDropped ==
    /\ pollStep = "ok"
    /\ 3 \in DOMAIN DecodedInPoll.zones
    /\ 3 \notin paired_zones
    /\ paired_zones # {}
    /\ DOMAIN pollRet.zones = paired_zones
    /\ stored_status = pollRet

\* The payload build_status slices out of data, empty when data does not
\* hold the length field.
SlicedPayload(data) ==
    IF Len(data) < 6 THEN << >>
    ELSE Slice(data, 8, 8 + merge_octets(Slice(data, 4, 6)) - 2)

\* C14: the status decoder never raises: for every received byte sequence
\* it returns a status or None, and None whenever the sliced payload is
\* shorter than 22 bytes.
C14_DecoderNeverRaises ==
    (opName = "status" /\ GotResponse(opOps)) =>
        /\ opExc = "none"
        /\ Len(SlicedPayload(Response(opOps))) < 22 => opVal = None

\* C15: for every byte at the acknowledgment offset of the response,
\* arm_system returns "armed" iff the byte at frame offset 8 is 0x91 and
\* "not_armed" otherwise, disarm_system "disarmed" iff that byte is 0x91 and
\* "not_disarmed" otherwise, and panic "triggered" iff the byte at frame
\* offset 7 is 0xFE and "not_triggered" otherwise.
C15_AckDetection ==
    /\ (opName = "arm_system" /\ GotResponse(opOps) /\ Len(Response(opOps)) >= 9) =>
            /\ opExc = "none"
            /\ opVal = IF Response(opOps)[9] = 145 THEN "armed" ELSE "not_armed"
    /\ (opName = "disarm_system" /\ GotResponse(opOps) /\ Len(Response(opOps)) >= 9) =>
            /\ opExc = "none"
            /\ opVal = IF Response(opOps)[9] = 145 THEN "disarmed" ELSE "not_disarmed"
    /\ (opName = "panic" /\ GotResponse(opOps) /\ Len(Response(opOps)) >= 8) =>
            /\ opExc = "none"
            /\ opVal = IF Response(opOps)[8] = 254 THEN "triggered" ELSE "not_triggered"

\* C15 happens: a panic response carried 0xFE at frame offset 7 and another
\* byte at offset 8, and panic returned "triggered".
W_C15_PanicOffsetSeven ==
    /\ opName = "panic"
    /\ GotResponse(opOps)
    /\ Len(Response(opOps)) >= 9
    /\ Response(opOps)[8] = 254
    /\ Response(opOps)[9] # 254
    /\ opVal = "triggered"

\* The frame of the first send among ops.
FirstSent(ops) == ops[CHOOSE i \in 1..Len(ops) :
                        /\ ops[i].op = "send"
                        /\ \A j \in 1..(i - 1) : ops[j].op # "send"].frame

\* C16: the ArmDisarm frame of arm_system(p) carries the payload [b, 1] and
\* the one of disarm_system(p) carries [b, 0], where b = 0xFF when p = 0
\* and b = p for p in 1..255; the broadcast byte 0xFF is sent for p = 0 and
\* p = 0xFF only.
C16_ArmDisarmPayload ==
    (opName \in { "arm_system", "disarm_system" } /\ Sent(opOps)) =>
        LET frame == FirstSent(opOps)
        IN  /\ Len(frame) = 11
            /\ Slice(frame, 0, 4) = dst_id \o our_id
            /\ Slice(frame, 4, 6) = << 0, 4 >>
            /\ Slice(frame, 6, 8) = cmd_arm_disarm
            /\ frame[9] = IF opArg = 0 THEN 255 ELSE opArg
            /\ frame[10] = IF opName = "arm_system" THEN 1 ELSE 0
            /\ frame[9] = 255 => opArg \in { 0, 255 }

\* C16 happens: arm_system(3) sent an ArmDisarm frame with payload [3, 1].
W_C16_ArmPartitionThree ==
    /\ opName = "arm_system"
    /\ opArg = 3
    /\ Sent(opOps)
    /\ Slice(FirstSent(opOps), 8, 10) = << 3, 1 >>

\* status() decoded a response whose payload has at least 22 bytes and
\* whose byte at payload offset 20 is 0b01000010.
DecodedStatusByte66 ==
    /\ opName = "status"
    /\ GotResponse(opOps)
    /\ opExc = "none"
    /\ Len(SlicedPayload(Response(opOps))) >= 22
    /\ SlicedPayload(Response(opOps))[21] = 66

\* C17 as stated: a status payload of at least 22 bytes whose byte at
\* offset 20 is 0b01000010 decodes to the armed state "disarmed" with the
\* siren on.
C17_Byte66DisarmedSiren ==
    DecodedStatusByte66 => (opVal.status = "disarmed" /\ opVal.siren = TRUE)

\* C17 amended: a status payload of at least 22 bytes whose byte at offset
\* 20 is 0b01000010 decodes to the armed state "unknown" (bits 5-6 are 10)
\* with the siren on.
C17_Byte66UnknownSiren ==
    DecodedStatusByte66 => (opVal.status = "unknown" /\ opVal.siren = TRUE)

\* C17 happens: status() decoded such a payload, with no zone firing and the
\* zones not closed, to "unknown" with the siren on.
W_C17_Byte66Decoded ==
    /\ DecodedStatusByte66
    /\ opVal.status = "unknown"
    /\ opVal.siren = TRUE
    /\ opVal.zonesFiring = FALSE
    /\ opVal.zonesClosed = FALSE

\* C18: a poll whose status decodes to None is handled as a failure: the
\* failure counter is incremented, next_update is the time of the failure
\* plus 2^counter seconds, the stored status is left alone and is what the
\* poll returns.
C18_DecodeNoneIsFailure ==
    [][ (pollStep' = "decode_none" /\ attempt' # attempt) =>
            /\ attempt' = attempt + 1
            /\ next_update' = NumPlus(now', Num(0, 2 ^ attempt'))
            /\ stored_status' = stored_status
            /\ pollExc' = "none"
            /\ pollRet' = stored_status ]_vars

\* C19: over every sequence of calls on one client object, at most one
\* socket opened by the client is open at any time, also while connect
\* creates a new one.
C19_AtMostOneOpenSocket == openPeak <= 1

\* C20: a Status frame is sent only on a session on which auth has returned
\* success since its connect; status() on a connected session without that
\* sends nothing and fails.
C20_StatusOnlyWhenAuthenticated ==
    opName = "status" =>
        /\ Sent(opOps) => authed
        /\ (opPre = "connected" /\ ~authed) => (opExc # "none" /\ ~Sent(opOps))

\* The number of frames sent among ops.
SendCount(ops) == Cardinality({ i \in 1..Len(ops) : ops[i].op = "send" })

\* The frame offset at which the command of that name reads its result.
ResultOffset(name) == IF name = "panic" THEN 7 ELSE 8

\* C21: every socket-level failure inside a client operation surfaces as a
\* CommunicationError: a failed connect, a read that times out in any
\* command, and a response too short to hold the result byte of auth,
\* arm_system, disarm_system or panic; no command sends its frame twice.
C21_SocketFailuresAreCommunicationErrors ==
    /\ (opName = "connect" /\ opExc # "none") => opExc = "CommunicationError"
    /\ (opName \in Commands /\ Sent(opOps) /\ ~GotResponse(opOps)) =>
            opExc = "CommunicationError"
    /\ ( /\ opName \in { "auth", "arm_system", "disarm_system", "panic" }
         /\ GotResponse(opOps)
         /\ Len(Response(opOps)) <= ResultOffset(opName) ) =>
            opExc = "CommunicationError"
    /\ opName \in Commands => SendCount(opOps) <= 1

\* The frames sent among ops.
SentFrames(ops) == { ops[i].frame : i \in { j \in 1..Len(ops) : ops[j].op = "send" } }

\* The last byte of frame is XOR(all preceding bytes) XOR 0xFF: bit by bit,
\* it has bit k set iff an even number of the preceding bytes have it set.
ChecksumBitsOk(frame) ==
    \A k \in 0..7 :
        BitSet(frame[Len(frame)], k) <=>
            Cardinality({ i \in 1..(Len(frame) - 1) : BitSet(frame[i], k) }) % 2 = 0

\* The big-endian number at frame offsets 4-5.
LengthField(frame) == frame[5] * 256 + frame[6]

\* C22 as stated: in every frame the client sends, the length field is the
\* number of bytes that follow it (command + payload + checksum), and the
\* last byte is XOR(all preceding bytes) XOR 0xFF.
C22_LengthCountsChecksum ==
    opName \in Commands =>
        \A frame \in SentFrames(opOps) :
            /\ Len(frame) >= 9
            /\ LengthField(frame) = Len(frame) - 6
            /\ ChecksumBitsOk(frame)

\* The value each method hard-codes for the length field of its frame.
FixedLength(name) ==
    IF name = "auth" THEN 10
    ELSE IF name \in { "arm_system", "disarm_system" } THEN 4
    ELSE IF name = "panic" THEN 3
    ELSE 2

\* C22 amended: in every frame the client sends, the length field is the
\* fixed value of its command (10 for Auth, 2 for Status and
\* ListPairedSensors, 4 for ArmDisarm, 3 for Panic); except in the Auth
\* frame that auth sends for the empty password, that is the byte count of
\* command + payload, the checksum byte not counted (one less than the
\* number of bytes that follow the field); and the last byte is XOR(all
\* preceding bytes) XOR 0xFF.
C22_LengthCountsCommandAndPayload ==
    opName \in Commands =>
        \A frame \in SentFrames(opOps) :
            /\ Len(frame) >= 9
            /\ LengthField(frame) = FixedLength(opName)
            /\ ~(opName = "auth" /\ opArg = << >>) =>
                    LengthField(frame) = Len(frame) - 7
            /\ ChecksumBitsOk(frame)

\* C22 happens: auth sent its 17-byte frame, whose length field is 10.
W_C22_AuthFrameLength ==
    /\ opName = "auth"
    /\ Sent(opOps)
    /\ Len(FirstSent(opOps)) = 17
    /\ LengthField(FirstSent(opOps)) = 10
    /\ Slice(FirstSent(opOps), 6, 8) = cmd_auth

\* The elements of a sequence.
Range(seq) == { seq[i] : i \in 1..Len(seq) }

\* Bit k of byte is set: byte is in the upper half of its block of 2^(k+1).
HasBit(byte, k) == byte % (2 ^ (k + 1)) >= 2 ^ k

\* The decoder's labels of the six problems: Open, CommFailure, Bypassed,
\* LowBattery, Tamper, Triggered.
FlagLabels ==
    { "open_triggered", "comm_failure", "bypassed", "low_battery", "tamper",
      "memory_triggered" }

\* The bit of each problem as the specification lists them.
StatedBit(label) ==
    IF label = "open_triggered" THEN 0
    ELSE IF label = "tamper" THEN 1
    ELSE IF label = "bypassed" THEN 2
    ELSE IF label = "low_battery" THEN 3
    ELSE IF label = "comm_failure" THEN 4
    ELSE 5

\* The same with CommFailure at bit 1 and Tamper at bit 4.
AmendedBit(label) ==
    IF label = "open_triggered" THEN 0
    ELSE IF label = "comm_failure" THEN 1
    ELSE IF label = "bypassed" THEN 2
    ELSE IF label = "low_battery" THEN 3
    ELSE IF label = "tamper" THEN 4
    ELSE 5

\* status() decoded a response into a status.
DecodedStatus ==
    /\ opName = "status"
    /\ GotResponse(opOps)
    /\ opExc = "none"
    /\ opVal # None

\* The zone numbers whose status byte the payload holds.
ZonesHeld(payload) == { z \in 1..64 : 84 + z <= Len(payload) }

\* C23 as stated: for every zone and every zone status byte the decoder
\* reports exactly the problems whose bit is set under bit0=Open,
\* bit1=Tamper, bit2=Bypassed, bit3=LowBattery, bit4=CommFailure,
\* bit5=Triggered; a zone with none of them is absent, a zone with any is
\* present under its 1-based number with all of them.
C23_ZoneBitsAsStated ==
    DecodedStatus =>
        LET payload == SlicedPayload(Response(opOps))
        IN  \A z \in ZonesHeld(payload) :
                LET problems == { l \in FlagLabels : HasBit(payload[84 + z], StatedBit(l)) }
                IN  /\ z \in DOMAIN opVal.zones <=> problems # {}
                    /\ z \in DOMAIN opVal.zones => Range(opVal.zones[z]) = problems

\* C23 amended: the same under bit0=Open, bit1=CommFailure, bit2=Bypassed,
\* bit3=LowBattery, bit4=Tamper, bit5=Triggered; no zone whose byte the
\* payload does not hold is reported.
C23_ZoneBitsAsDecoded ==
    DecodedStatus =>
        LET payload == SlicedPayload(Response(opOps))
        IN  /\ DOMAIN opVal.zones \subseteq ZonesHeld(payload)
            /\ \A z \in ZonesHeld(payload) :
                LET problems == { l \in FlagLabels : HasBit(payload[84 + z], AmendedBit(l)) }
                IN  /\ z \in DOMAIN opVal.zones <=> problems # {}
                    /\ z \in DOMAIN opVal.zones => Range(opVal.zones[z]) = problems

\* C23 happens: zone 64 had the status byte 0x12 (bits 1 and 4) and is
\* reported with the communication failure and the tamper, and zone 1, whose
\* byte is 0, is not reported.
W_C23_ZoneSixtyFour ==
    /\ DecodedStatus
    /\ Len(SlicedPayload(Response(opOps))) = 148
    /\ SlicedPayload(Response(opOps))[148] = 18
    /\ DOMAIN opVal.zones = { 64 }
    /\ Range(opVal.zones[64]) = { "comm_failure", "tamper" }

\* The problems in the order of their severity, Triggered > Tamper > Open >
\* LowBattery > CommFailure > Bypassed, and the label the entities have for
\* each.
Severity ==
    << "memory_triggered", "tamper", "open_triggered", "low_battery",
       "comm_failure", "bypassed" >>

ShownFor ==
    << "disparado", "violado", "aberto", "bateria_fraca", "falha_comunicacao",
       "ignorado" >>

\* The label of the most severe problem of a non-empty set of problems.
MostSevere(problems) ==
    ShownFor[CHOOSE i \in 1..6 :
                /\ Severity[i] \in problems
                /\ \A j \in 1..(i - 1) : Severity[j] \notin problems]

\* C24: for every non-empty problem set the decoder produces for a zone,
\* both zone entities show the label of its most severe problem in the
\* order Triggered > Tamper > Open > LowBattery > CommFailure > Bypassed.
C24_MostSevereLabelShown ==
    DecodedStatus =>
        \A z \in DOMAIN opVal.zones :
            /\ state(opVal.zones[z]) = MostSevere(Range(opVal.zones[z]))
            /\ native_value(opVal.zones[z]) = MostSevere(Range(opVal.zones[z]))

\* The status a poll of the healthy panel returns.
FreshStatus ==
    ProcessedData(build_status(StatusResp(22, 34, << >>, 0, 0)).val, paired_zones)

\* The last poll went to the healthy panel and succeeded: the stored status
\* is the fresh one, the failure counter is 0 and no window is pending.
Recovered ==
    /\ healthy
    /\ pollKind = "io"
    /\ pollStep = "ok"
    /\ pollRet = FreshStatus
    /\ stored_status = FreshStatus
    /\ attempt = 0
    /\ ~InBackoff(now, next_update)

\* C25: recovery is eventual: whatever the failure counter and the pending
\* window, once the panel accepts the connection and the password (the
\* configured password being one auth sends) and returns a decodable
\* status for good, and the host keeps polling as time advances, a poll
\* goes to the network and succeeds; then the stored status is the fresh
\* one, the failure counter is 0 and the next poll is not suppressed.
C25_EventualRecovery ==
    (healthy /\ ValidPassword(password)) ~> Recovered

\* C25, amended: recovery is eventual once the panel accepts the connection
\* and the password, returns a decodable status and also answers the paired
\* sensors request for good, and the host keeps polling as time advances.
C25_EventualRecoveryWhenAnswered ==
    (healthy /\ answers /\ ValidPassword(password)) ~> Recovered

\* C25 happens: the panel became healthy while the coordinator, which has
\* no paired zone yet, was inside its backoff window after a failed poll
\* and suppressed ones.
W_C25_HealedInsideWindow ==
    /\ healthy
    /\ answers
    /\ ValidPassword(password)
    /\ pollKind = "skipped"
    /\ attempt >= 2
    /\ failsSinceOk >= 1
    /\ NumAfter(now, next_update)
    /\ paired_zones = { }

\* The commands of the frames sent among ops, in the order of sending.
SentCommands(ops) ==
    LET sent == SelectSeq(ops, LAMBDA e : e.op = "send")
    IN  [ i \in 1..Len(sent) |-> << sent[i].frame[7], sent[i].frame[8] >> ]

\* The order of the requests of one poll.
WireOrder == << cmd_auth, cmd_status, cmd_paired_sensors >>

IsPrefix(s, t) ==
    /\ Len(s) <= Len(t)
    /\ \A i \in 1..Len(s) : s[i] = t[i]

\* The panel answered the Auth frame among ops with result 0.
AuthAccepted(ops) ==
    \E i \in 2..Len(ops) :
        /\ ops[i].op = "recv"
        /\ ops[i - 1].op = "send"
        /\ << ops[i - 1].frame[7], ops[i - 1].frame[8] >> = cmd_auth
        /\ Len(ops[i].frame) >= 9
        /\ ops[i].frame[9] = 0

\* C26: a poll that goes to the network starts with the connect and ends
\* with the close, and nothing comes after the close; in between it sends
\* Auth, Status and ListPairedSensors in this order, each at most once and
\* each only after the previous request was answered; it sends nothing when
\* the connect failed, and no Status or ListPairedSensors frame unless the
\* panel answered Auth with success.
C26_WireOrder ==
    pollKind = "io" =>
        /\ Len(pollOps) >= 2
        /\ pollOps[1].op = "connect"
        /\ pollOps[Len(pollOps)].op \in { "close", "close_error" }
        /\ \A i \in 2..(Len(pollOps) - 1) : pollOps[i].op \in { "send", "recv" }
        /\ IsPrefix(SentCommands(pollOps), WireOrder)
        /\ \A i \in 2..(Len(pollOps) - 1) :
              /\ pollOps[i].op = "recv" => pollOps[i - 1].op = "send"
              /\ (pollOps[i].op = "send" /\ i > 2) => pollOps[i - 1].op = "recv"
        /\ pollStep = "connect" => SendCount(pollOps) = 0
        /\ pollStep \in { "connect", "auth" } =>
              SentCommands(pollOps) \in { << >>, << cmd_auth >> }
        /\ Len(SentCommands(pollOps)) >= 2 => AuthAccepted(pollOps)

\* C26 happens: the panel refused the password, and the poll went from the
\* answer to Auth straight to the close.
W_C26_AuthRefused ==
    /\ pollKind = "io"
    /\ pollStep = "auth"
    /\ Len(pollOps) = 4
    /\ pollOps[2].frame = AuthFrame(password)
    /\ pollOps[3].op = "recv"
    /\ pollOps[3].frame[9] = 1
    /\ pollOps[4].op \in { "close", "close_error" }

=============================================================================
